---- MODULE Spec2Model ----
(***************************************************************************)
(* Resilient-Email-Service (main.js): per-IP request tracking with         *)
(* exponential backoff, content-hash idempotency and provider failover.    *)
(*                                                                         *)
(* Time is the value of Date.now() in milliseconds.  Every synchronous     *)
(* block of JavaScript (run to completion on the single event-loop thread) *)
(* is one action; every await / timer is a boundary between actions.       *)
(***************************************************************************)
EXTENDS Integers, Sequences, FiniteSets, TLC

VARIABLES now, ipMap, idempotencyMap, reqs, nextClear, clears

vars == <<now, ipMap, idempotencyMap, reqs, nextClear, clears>>

(***************************************************************************)
(* Program constants                                                       *)
(***************************************************************************)
maxRetries == 3
maxRequests == 3
window == 1000
baseDelay == 100
clearPeriod == 6000

MaxRetriesMsg == "YOU HAVE REACHED THE MAXIMUM NUMBER OF RETRIES!!"
MaxRequestsMsg == "YOU HAVE REACHED THE MAXIMUM NUMBER OF REQUESTS!! SLOW DOWN!!"

(***************************************************************************)
(* Bounds of the model                                                     *)
(***************************************************************************)
\* Clock granularity of the request-handling specifications, and of the
\* long-running service specification (which must reach the clear period).
TickMs == 250
ServiceTickMs == 3000
\* SpecAdmission: calls and clock ticks
MaxCalls == 5
MaxTicks == 5
\* Spec: delivery requests and clock ticks
MaxPostCalls == 3
MaxPostTicks == 2
\* SpecBurst: delivery requests of one caller and clock ticks
MaxBurstCalls == 4
MaxBurstTicks == 2
\* SpecService: delivery requests and clock ticks
MaxServiceCalls == 2
MaxServiceTicks == 2

\* SpecBodies: delivery requests of one caller and clock ticks
MaxBodiesCalls == 2
MaxBodiesTicks == 2

\* SpecOutage: delivery requests and clock ticks
MaxOutageCalls == 2
MaxOutageTicks == 2

\* SpecCaller: calls of one caller and clock ticks
MaxCallerCalls == 6
MaxCallerTicks == 7

\* SpecRace: clock step, calls and clock steps
RaceTickMs == 100
MaxRaceCalls == 3
MaxRaceTicks == 4

\* SpecRoutes: calls of one caller on any route and clock ticks
MaxRoutesCalls == 4
MaxRoutesTicks == 3

IPs == {"ip1", "ip2"}

(***************************************************************************)
(* Request bodies: each field is a sequence of characters.  B2 and B3      *)
(* differ from B1 in one field each and join to the same string.           *)
(***************************************************************************)
B1 == [from |-> <<"a">>, to |-> <<"b">>, subject |-> <<"s">>, text |-> <<"t">>]
B2 == [from |-> <<"a">>, to |-> <<"-", "b">>, subject |-> <<"s">>, text |-> <<"t">>]
B3 == [from |-> <<"a", "-">>, to |-> <<"b">>, subject |-> <<"s">>, text |-> <<"t">>]
NoBody == [from |-> <<>>, to |-> <<>>, subject |-> <<>>, text |-> <<>>]
Bodies == {B1, B2, B3}
TwoBodies == {B1, B2}
\* Spec: caller ip1 sends either body, caller ip2 repeats B1.
PostInputs == {<<"ip1", B1>>, <<"ip1", B2>>, <<"ip2", B1>>}

Undefined == -1

Null == "null"
NoError == "undefined"
NoOutcome == [provider |-> Null, sent |-> FALSE, fallbackTried |-> FALSE,
              timestamp |-> Undefined, error |-> NoError]

(***************************************************************************)
(* requestTrackingMiddleware                                               *)
(***************************************************************************)
\* Mutant: linear instead of exponential growth.
getBackoffDelay_Linear(retryCount, base) == base * 2 * retryCount

getBackoffDelay(retryCount, base) == base * 2^retryCount

FreshEntry(t) == [retryCount |-> 1, requests |-> 1, timeStamp |-> t]

\* Mutant: the window still holds at exactly its length.
InWindow_Inclusive(val, t) == t - val.timeStamp <= window

InWindow(val, t) == t - val.timeStamp < window

\* Mutant: a call inside the window counts as a request but not as a retry.
Bump_RequestsOnly(val) == [val EXCEPT !.requests = @ + 1]

Bump(val) == [val EXCEPT !.retryCount = @ + 1, !.requests = @ + 1]

\* Mutant: every call inside the window moves the window start to that call.
Track_Sliding(map, ip, t) ==
    IF ip \notin DOMAIN map
    THEN map @@ (ip :> FreshEntry(t))
    ELSE IF InWindow(map[ip], t)
         THEN [map EXCEPT ![ip] = [Bump(@) EXCEPT !.timeStamp = t]]
         ELSE [map EXCEPT ![ip] = FreshEntry(t)]

Track(map, ip, t) ==
    IF ip \notin DOMAIN map
    THEN map @@ (ip :> FreshEntry(t))
    ELSE IF InWindow(map[ip], t)
         THEN [map EXCEPT ![ip] = Bump(@)]
         ELSE [map EXCEPT ![ip] = FreshEntry(t)]

\* Mutant: the call that reaches the maximum is already denied.
RetriesExceeded_OffByOne(val) == maxRetries <= val.retryCount

RetriesExceeded(val) == maxRetries < val.retryCount

RequestsExceeded(val) == val.requests > maxRequests

Verdict(val) ==
    IF RetriesExceeded(val) THEN MaxRetriesMsg
    ELSE IF RequestsExceeded(val) THEN MaxRequestsMsg
    ELSE "next"

\* Mutant: the delay does not grow with the retry count.
ReqDelay_Flat(val) ==
    IF RetriesExceeded(val) THEN Undefined
    ELSE getBackoffDelay(1, baseDelay)

ReqDelay(val) ==
    IF RetriesExceeded(val) THEN Undefined
    ELSE getBackoffDelay(val.retryCount, baseDelay)

(***************************************************************************)
(* POST /sendEmail: fingerprint                                            *)
(***************************************************************************)
\* Mutant: the recipient is left out of the fingerprint.
Join_NoRecipient(body) ==
    body.from \o <<"-">> \o body.subject \o <<"-">> \o body.text

Join(body) ==
    body.from \o <<"-">> \o body.to \o <<"-">> \o body.subject \o <<"-">> \o body.text

\* The SHA-256 hex digest is represented by its preimage (no collisions).
Sha256Hex(s) == s

Hash(body) == Sha256Hex(Join(body))

\* Mutant: the test never finds the fingerprint.
MapHas_Never(map, h) == FALSE

MapHas(map, h) == h \in map

\* Mutant: the fingerprint is not recorded.
MapSet_Skipped(map, h) == map

MapSet(map, h) == map \cup {h}

(***************************************************************************)
(* MockEmailService.sendEmail                                              *)
(***************************************************************************)
\* Mutant: with both draws true, provider A is tried all the same.
Attempted_BothDownTriesA(failA, failB) ==
    IF failA /\ ~failB THEN "B"
    ELSE IF ~failA /\ failB THEN "A"
    ELSE "A"

\* The provider whose sendMail is awaited, "none" when no attempt is made.
Attempted(failA, failB) ==
    IF failA /\ ~failB THEN "B"
    ELSE IF ~failA /\ failB THEN "A"
    ELSE IF failA /\ failB THEN "none"
    ELSE "A"

Sent(p, fb, t) ==
    [provider |-> p, sent |-> TRUE, fallbackTried |-> fb, timestamp |-> t,
     error |-> NoError]

Failed(fb, t, e) ==
    [provider |-> Null, sent |-> FALSE, fallbackTried |-> fb, timestamp |-> t,
     error |-> e]

\* Mutant: using A while B is down is not reported as a fallback.
sendEmail_NoFallbackFlag(failA, failB, ok, t) ==
    IF failA /\ ~failB
    THEN IF ok THEN Sent("B", TRUE, t) ELSE Failed(TRUE, t, "Fallback failed")
    ELSE IF failA /\ failB
    THEN Failed(FALSE, t, "Both providers failed")
    ELSE IF ok THEN Sent("A", FALSE, t) ELSE Failed(FALSE, t, "Both providers failed")

\* ok: the awaited sendMail resolved (TRUE) or rejected (FALSE).
sendEmail(failA, failB, ok, t) ==
    IF failA /\ ~failB
    THEN IF ok THEN Sent("B", TRUE, t) ELSE Failed(TRUE, t, "Fallback failed")
    ELSE IF ~failA /\ failB
    THEN IF ok THEN Sent("A", TRUE, t) ELSE Failed(TRUE, t, "Fallback failed")
    ELSE IF failA /\ failB
    THEN Failed(FALSE, t, "Both providers failed")
    ELSE IF ok THEN Sent("A", FALSE, t) ELSE Failed(FALSE, t, "Both providers failed")

\* Mutant: the default path awaits sendMail outside any try block.
Guarded_DefaultBare(failA, failB) ==
    IF failA /\ ~failB THEN TRUE
    ELSE IF ~failA /\ failB THEN TRUE
    ELSE FALSE

\* The awaited sendMail stands inside a try block with a catch clause.
Guarded(failA, failB) ==
    IF failA /\ ~failB THEN TRUE
    ELSE IF ~failA /\ failB THEN TRUE
    ELSE TRUE

\* sendEmail returns to its caller instead of throwing.
Returns(failA, failB, ok) == ok \/ Guarded(failA, failB)

(***************************************************************************)
(* State                                                                   *)
(***************************************************************************)
Init ==
    /\ now = 0
    /\ ipMap = <<>>
    /\ idempotencyMap = {}
    /\ reqs = <<>>
    /\ nextClear = clearPeriod
    /\ clears = 0

\* Mutant: the 403 answer is sent without returning, so next() still runs.
NewRequest_NoReturn(ip, route, body, val, t) ==
    [ip |-> ip, route |-> route, body |-> body, at |-> t,
     retryCount |-> val.retryCount, requests |-> val.requests,
     windowStart |-> val.timeStamp,
     delay |-> ReqDelay(val),
     pc |-> "backoff",
     resp |-> IF Verdict(val) = "next" THEN "none" ELSE Verdict(val),
     seen |-> "unchecked", epoch |-> Undefined,
     failA |-> FALSE, failB |-> FALSE, calls |-> <<>>, mail |-> "none",
     outcome |-> NoOutcome]

NewRequest(ip, route, body, val, t) ==
    [ip |-> ip, route |-> route, body |-> body, at |-> t,
     retryCount |-> val.retryCount, requests |-> val.requests,
     windowStart |-> val.timeStamp,
     delay |-> ReqDelay(val),
     pc |-> IF Verdict(val) = "next" THEN "backoff" ELSE "responded",
     resp |-> IF Verdict(val) = "next" THEN "none" ELSE Verdict(val),
     seen |-> "unchecked", epoch |-> Undefined,
     failA |-> FALSE, failB |-> FALSE, calls |-> <<>>, mail |-> "none",
     outcome |-> NoOutcome]

\* Mutant: the two middlewares are mounted on the delivery route only, so a
\* request on another route leaves ipMap alone.
Arrive_DeliveryOnly(ip, route, body) ==
    /\ ipMap' = IF route = "POST /sendEmail" THEN Track(ipMap, ip, now) ELSE ipMap
    /\ reqs' = Append(reqs, NewRequest(ip, route, body,
                                       IF route = "POST /sendEmail"
                                       THEN ipMap'[ip] ELSE FreshEntry(now),
                                       now))
    /\ UNCHANGED <<now, idempotencyMap, nextClear, clears>>

\* A request reaches app.use(requestTrackingMiddleware, ...).
Arrive(ip, route, body) ==
    /\ ipMap' = Track(ipMap, ip, now)
    /\ reqs' = Append(reqs, NewRequest(ip, route, body, ipMap'[ip], now))
    /\ UNCHANGED <<now, idempotencyMap, nextClear, clears>>

\* Mutant: a blocking wait, which lets the requests through one at a time
\* in their order of arrival.
BackoffEnd_Serialised(r) ==
    /\ reqs[r].pc = "backoff"
    /\ now >= reqs[r].at + reqs[r].delay
    /\ \A q \in 1..(r - 1) : reqs[q].pc # "backoff"
    /\ IF reqs[r].route = "POST /sendEmail"
       THEN LET hash == Hash(reqs[r].body)
            IN IF MapHas(idempotencyMap, hash)
               THEN /\ reqs' = [reqs EXCEPT ![r].pc = "responded",
                                            ![r].resp = "duplicate",
                                            ![r].seen = "seen",
                                            ![r].epoch = clears]
                    /\ UNCHANGED idempotencyMap
               ELSE /\ idempotencyMap' = MapSet(idempotencyMap, hash)
                    /\ reqs' = [reqs EXCEPT ![r].pc = "initServices",
                                            ![r].seen = "unseen",
                                            ![r].epoch = clears]
       ELSE /\ reqs' = [reqs EXCEPT ![r].pc = "responded",
                                    ![r].resp = IF reqs[r].route = "GET /"
                                                THEN "welcome" ELSE "emailPage"]
            /\ UNCHANGED idempotencyMap
    /\ UNCHANGED <<now, ipMap, nextClear, clears>>

\* The setTimeout of exponentialBackoffMiddleware fires, next() runs the route.
BackoffEnd(r) ==
    /\ reqs[r].pc = "backoff"
    /\ now >= reqs[r].at + reqs[r].delay
    /\ IF reqs[r].route = "POST /sendEmail"
       THEN LET hash == Hash(reqs[r].body)
            IN IF MapHas(idempotencyMap, hash)
               THEN /\ reqs' = [reqs EXCEPT ![r].pc = "responded",
                                            ![r].resp = "duplicate",
                                            ![r].seen = "seen",
                                            ![r].epoch = clears]
                    /\ UNCHANGED idempotencyMap
               ELSE /\ idempotencyMap' = MapSet(idempotencyMap, hash)
                    /\ reqs' = [reqs EXCEPT ![r].pc = "initServices",
                                            ![r].seen = "unseen",
                                            ![r].epoch = clears]
       ELSE /\ reqs' = [reqs EXCEPT ![r].pc = "responded",
                                    ![r].resp = IF reqs[r].route = "GET /"
                                                THEN "welcome" ELSE "emailPage"]
            /\ UNCHANGED idempotencyMap
    /\ UNCHANGED <<now, ipMap, nextClear, clears>>

\* initServices resolves; sendEmail draws the two failures and either
\* returns at once (both fail) or awaits one provider's sendMail.
InitServicesDone(r, failA, failB) ==
    /\ reqs[r].pc = "initServices"
    /\ LET p == Attempted(failA, failB)
       IN reqs' = [reqs EXCEPT
              ![r].failA = failA,
              ![r].failB = failB,
              ![r].calls = IF p = "none" THEN <<>> ELSE <<p>>,
              ![r].pc = IF p = "none" THEN "responded" ELSE "sendMail",
              ![r].resp = IF p = "none" THEN "status" ELSE "none",
              ![r].outcome = IF p = "none"
                             THEN sendEmail(failA, failB, FALSE, now)
                             ELSE NoOutcome]
    /\ UNCHANGED <<now, ipMap, idempotencyMap, nextClear, clears>>

\* initServices rejects (nodemailer.createTestAccount fails): the await of the
\* handler is outside any try block, so the handler's promise rejects.  The
\* framework then either leaves the request unanswered or, where it forwards
\* rejected handlers to its error handler, answers 500.
InitServicesFailed(r, forwarded) ==
    /\ reqs[r].pc = "initServices"
    /\ reqs' = [reqs EXCEPT ![r].pc = "unhandled",
                            ![r].resp = IF forwarded THEN "error500" ELSE "none"]
    /\ UNCHANGED <<now, ipMap, idempotencyMap, nextClear, clears>>

\* Mutant: a failed send takes the fingerprint out again.
SendMailDone_UnmarkOnFailure(r, ok) ==
    /\ reqs[r].pc = "sendMail"
    /\ reqs' = [reqs EXCEPT
           ![r].pc = IF Returns(reqs[r].failA, reqs[r].failB, ok)
                     THEN "responded" ELSE "unhandled",
           ![r].resp = IF Returns(reqs[r].failA, reqs[r].failB, ok)
                       THEN "status" ELSE "none",
           ![r].mail = IF ok THEN "resolved" ELSE "rejected",
           ![r].outcome = IF Returns(reqs[r].failA, reqs[r].failB, ok)
                          THEN sendEmail(reqs[r].failA, reqs[r].failB, ok, now)
                          ELSE NoOutcome]
    /\ idempotencyMap' = IF ok THEN idempotencyMap
                         ELSE idempotencyMap \ {Hash(reqs[r].body)}
    /\ UNCHANGED <<now, ipMap, nextClear, clears>>

\* The awaited provider.sendMail resolves (ok) or rejects.  When sendEmail
\* returns, the status page is sent; an exception that escaped sendEmail would
\* reject the handler's promise and leave the request unanswered.
SendMailDone(r, ok) ==
    /\ reqs[r].pc = "sendMail"
    /\ reqs' = [reqs EXCEPT
           ![r].pc = IF Returns(reqs[r].failA, reqs[r].failB, ok)
                     THEN "responded" ELSE "unhandled",
           ![r].resp = IF Returns(reqs[r].failA, reqs[r].failB, ok)
                       THEN "status" ELSE "none",
           ![r].mail = IF ok THEN "resolved" ELSE "rejected",
           ![r].outcome = IF Returns(reqs[r].failA, reqs[r].failB, ok)
                          THEN sendEmail(reqs[r].failA, reqs[r].failB, ok, now)
                          ELSE NoOutcome]
    /\ UNCHANGED <<now, ipMap, idempotencyMap, nextClear, clears>>

\* Mutant: the periodic clear empties both maps.
ClearInterval_ClearsBoth ==
    /\ now >= nextClear
    /\ idempotencyMap' = {}
    /\ ipMap' = <<>>
    /\ nextClear' = nextClear + clearPeriod
    /\ clears' = clears + 1
    /\ UNCHANGED <<now, reqs>>

\* setInterval(() => idempotencyMap.clear(), 0.1 * 60 * 1000)
ClearInterval ==
    /\ now >= nextClear
    /\ idempotencyMap' = {}
    /\ nextClear' = nextClear + clearPeriod
    /\ clears' = clears + 1
    /\ UNCHANGED <<now, ipMap, reqs>>

\* Date.now() advances.
Tick(d) ==
    /\ now' = now + d
    /\ UNCHANGED <<ipMap, idempotencyMap, reqs, nextClear, clears>>

Requests == 1..Len(reqs)

(***************************************************************************)
(* Specifications                                                          *)
(***************************************************************************)
Respond == \E r \in Requests : BackoffEnd(r)

Initialised ==
    \E r \in Requests, failA, failB \in BOOLEAN : InitServicesDone(r, failA, failB)

Delivered == \E r \in Requests, ok \in BOOLEAN : SendMailDone(r, ok)

\* Admission control and backoff: two callers, any timing.
AdmissionArrive ==
    /\ Len(reqs) < MaxCalls
    /\ \E ip \in IPs : Arrive(ip, "GET /", NoBody)

AdmissionTick == now < MaxTicks * TickMs /\ Tick(TickMs)

NextAdmission == AdmissionArrive \/ AdmissionTick \/ Respond

SpecAdmission == Init /\ [][NextAdmission]_vars

\* Delivery requests of two callers, before the first clear of idempotencyMap.
PostArrive ==
    /\ Len(reqs) < MaxPostCalls
    /\ \E in \in PostInputs : Arrive(in[1], "POST /sendEmail", in[2])

PostTick == now < MaxPostTicks * TickMs /\ Tick(TickMs)

Next == PostArrive \/ PostTick \/ Respond \/ Initialised \/ Delivered

Spec == Init /\ [][Next]_vars

\* A burst of delivery requests of one caller inside one window.
BurstArrive ==
    /\ Len(reqs) < MaxBurstCalls
    /\ \E b \in TwoBodies : Arrive("ip1", "POST /sendEmail", b)

BurstTick == now < MaxBurstTicks * TickMs /\ Tick(TickMs)

NextBurst == BurstArrive \/ BurstTick \/ Respond \/ Initialised \/ Delivered

SpecBurst == Init /\ [][NextBurst]_vars

\* The running service, with the periodic clear of idempotencyMap.
ServiceArrive ==
    /\ Len(reqs) < MaxServiceCalls
    /\ \E ip \in IPs : Arrive(ip, "POST /sendEmail", B1)

ServiceTick == now < MaxServiceTicks * ServiceTickMs /\ Tick(ServiceTickMs)

NextService ==
    ServiceArrive \/ ServiceTick \/ Respond \/ Initialised \/ Delivered \/ ClearInterval

SpecService == Init /\ [][NextService]_vars

\* Delivery requests of one caller with bodies that differ in one field or
\* join to the same string.
BodiesArrive ==
    /\ Len(reqs) < MaxBodiesCalls
    /\ \E b \in Bodies : Arrive("ip1", "POST /sendEmail", b)

BodiesTick == now < MaxBodiesTicks * TickMs /\ Tick(TickMs)

NextBodies == BodiesArrive \/ BodiesTick \/ Respond \/ Initialised \/ Delivered

SpecBodies == Init /\ [][NextBodies]_vars

\* Delivery requests while the test-account service may be unreachable.
OutageArrive ==
    /\ Len(reqs) < MaxOutageCalls
    /\ \E ip \in IPs : Arrive(ip, "POST /sendEmail", B1)

OutageTick == now < MaxOutageTicks * TickMs /\ Tick(TickMs)

InitialisationFailed ==
    \E r \in Requests, forwarded \in BOOLEAN : InitServicesFailed(r, forwarded)

NextOutage ==
    OutageArrive \/ OutageTick \/ Respond \/ Initialised \/ InitialisationFailed \/ Delivered

SpecOutage == Init /\ [][NextOutage]_vars

\* One caller over several windows.
CallerArrive ==
    /\ Len(reqs) < MaxCallerCalls
    /\ Arrive("ip1", "GET /", NoBody)

CallerTick == now < MaxCallerTicks * TickMs /\ Tick(TickMs)

NextCaller == CallerArrive \/ CallerTick \/ Respond

SpecCaller == Init /\ [][NextCaller]_vars

\* Requests racing through their delays, with timers that fire on time: the
\* clock does not pass the deadline of a pending setTimeout before its
\* callback has run.
Deadline(r) == reqs[r].at + reqs[r].delay

RaceArrive ==
    /\ Len(reqs) < MaxRaceCalls
    /\ \/ \E ip \in IPs : Arrive(ip, "POST /sendEmail", B1)
       \/ Arrive("ip1", "GET /", NoBody)

RaceTick ==
    /\ now < MaxRaceTicks * RaceTickMs
    /\ ~ENABLED Respond
    /\ LET waits == {Deadline(r) - now : r \in {q \in Requests : reqs[q].pc = "backoff"}}
           steps == {d \in waits : d > 0} \cup {RaceTickMs}
       IN Tick(CHOOSE d \in steps : \A e \in steps : d <= e)

NextRace == RaceArrive \/ RaceTick \/ Respond \/ Initialised \/ Delivered

SpecRace == Init /\ [][NextRace]_vars

\* One caller on all the routes of the application.
Routes == {"GET /", "GET /sendEmail", "POST /sendEmail"}

RoutesArrive ==
    /\ Len(reqs) < MaxRoutesCalls
    /\ \E route \in Routes :
           Arrive("ip1", route, IF route = "POST /sendEmail" THEN B1 ELSE NoBody)

RoutesTick == now < MaxRoutesTicks * TickMs /\ Tick(TickMs)

NextRoutes == RoutesArrive \/ RoutesTick \/ Respond \/ Initialised \/ Delivered

SpecRoutes == Init /\ [][NextRoutes]_vars

(***************************************************************************)
(* Vocabulary of the properties                                            *)
(***************************************************************************)
Denied(r) == reqs[r].resp \in {MaxRetriesMsg, MaxRequestsMsg}

Admitted(r) == ~Denied(r)

IsPost(r) == reqs[r].route = "POST /sendEmail"

\* sendEmail has been invoked for request r.
Dispatched(r) == reqs[r].pc = "sendMail" \/ reqs[r].resp = "status"

\* Request r has passed the idempotencyMap.has test.
Checked(r) == reqs[r].seen # "unchecked"

\* The calls of r's caller up to r that fall in the same window as r.
SameWindow(r) ==
    {q \in 1..r : reqs[q].ip = reqs[r].ip /\ reqs[q].windowStart = reqs[r].windowStart}

PosInWindow(r) == Cardinality(SameWindow(r))

\* The previous call of r's caller (0 when r is its first call).
PrevCall(r) ==
    LET earlier == {q \in 1..(r - 1) : reqs[q].ip = reqs[r].ip}
    IN IF earlier = {} THEN 0 ELSE CHOOSE q \in earlier : \A p \in earlier : p <= q

\* The request appended by this step (0 when the step is no arrival).
Arrived == IF Len(reqs') = Len(reqs) + 1 THEN Len(reqs') ELSE 0

(***************************************************************************)
(* C1: inside one window of a caller (every call at less than 1000 ms from *)
(* the window start) the N-th call is admitted with retryCount = N for     *)
(* N = 1, 2, 3 and the 4th call is denied with the maximum-retries answer. *)
(***************************************************************************)
C1_NthCallInWindow ==
    \A r \in Requests :
        LET n == PosInWindow(r)
        IN /\ reqs[r].at - reqs[r].windowStart < window
           /\ n <= 3 => Admitted(r) /\ reqs[r].retryCount = n
           /\ n = 4 => reqs[r].resp = MaxRetriesMsg

C1_Witness ==
    \E r \in Requests :
        /\ PosInWindow(r) = 4
        /\ reqs[r].resp = MaxRetriesMsg
        /\ \A q \in SameWindow(r) \ {r} : Admitted(q)

(***************************************************************************)
(* C2: in every interval of 1000 ms at most 3 requests of one caller are   *)
(* admitted (intervals [t, t + 1000) starting at an admitted request).     *)
(***************************************************************************)
AdmittedWithin(r) ==
    {q \in Requests : /\ reqs[q].ip = reqs[r].ip
                      /\ Admitted(q)
                      /\ reqs[r].at <= reqs[q].at
                      /\ reqs[q].at < reqs[r].at + window}

C2_AtMostThreePerSecond ==
    \A r \in Requests : Admitted(r) => Cardinality(AdmittedWithin(r)) <= maxRequests

C2_FailingWindow ==
    \E r \in Requests : Admitted(r) /\ Cardinality(AdmittedWithin(r)) > maxRequests

(***************************************************************************)
(* C3: of two admitted delivery requests with identical (from, to,         *)
(* subject, text) and no clear of idempotencyMap between them, the one     *)
(* that reaches the handler first proceeds to dispatch and the other is    *)
(* answered as a duplicate and never invokes sendEmail: sendEmail is       *)
(* invoked once for that content.                                          *)
(***************************************************************************)
\* Requests with r's content that passed the test before this step, in the
\* current lifetime of idempotencyMap.
EarlierSame(r) ==
    {q \in Requests \ {r} : /\ IsPost(q)
                            /\ reqs[q].body = reqs[r].body
                            /\ Checked(q)
                            /\ reqs[q].epoch = clears}

C3_CheckStep ==
    \A r \in Requests :
        (IsPost(r) /\ ~Checked(r) /\ reqs'[r].seen # "unchecked") =>
            IF EarlierSame(r) = {}
            THEN reqs'[r].pc = "initServices" /\ reqs'[r].resp = "none"
            ELSE reqs'[r].pc = "responded" /\ reqs'[r].resp = "duplicate"

C3_DuplicateNeverDispatched ==
    \A r \in Requests :
        /\ reqs[r].resp = "duplicate" => ~Dispatched(r) /\ reqs[r].calls = <<>>
        /\ IsPost(r) =>
               Cardinality({q \in Requests : /\ IsPost(q)
                                             /\ reqs[q].body = reqs[r].body
                                             /\ reqs[q].epoch = reqs[r].epoch
                                             /\ Dispatched(q)}) <= 1

C3_SecondIsDuplicate == [][C3_CheckStep]_vars /\ []C3_DuplicateNeverDispatched

C3_Witness ==
    \E r, q \in Requests :
        /\ r # q
        /\ IsPost(r) /\ IsPost(q)
        /\ reqs[r].body = reqs[q].body
        /\ reqs[r].resp = "status"
        /\ reqs[q].resp = "duplicate"
        /\ reqs[q].at >= reqs[r].outcome.timestamp

(***************************************************************************)
(* C4: among concurrently in-flight admitted requests with the same        *)
(* fingerprint, under every interleaving and with no clear in between, no  *)
(* two observe the fingerprint as not seen and exactly one invokes the     *)
(* dispatcher.                                                             *)
(***************************************************************************)
SameFingerprint(r) ==
    {q \in Requests : /\ IsPost(q)
                      /\ Hash(reqs[q].body) = Hash(reqs[r].body)
                      /\ reqs[q].epoch = reqs[r].epoch}

C4_ExactlyOneDispatch ==
    \A r \in Requests :
        (IsPost(r) /\ Checked(r)) =>
            /\ Cardinality({q \in SameFingerprint(r) : reqs[q].seen = "unseen"}) = 1
            /\ Cardinality({q \in SameFingerprint(r) : Dispatched(q)}) <= 1
            /\ (\A q \in SameFingerprint(r) : reqs[q].pc = "responded") =>
                   Cardinality({q \in SameFingerprint(r) : Dispatched(q)}) = 1

\* Three requests with one fingerprint were in flight together: the second
\* and third were answered while the first was still being dispatched.
C4_Witness ==
    \E r, q, p \in Requests :
        /\ Cardinality({r, q, p}) = 3
        /\ {q, p} \subseteq SameFingerprint(r)
        /\ reqs[r].pc \in {"initServices", "sendMail"}
        /\ reqs[q].resp = "duplicate"
        /\ reqs[p].resp = "duplicate"

(***************************************************************************)
(* C5: in the running service, for each fingerprint at most one dispatch   *)
(* ever results in sent = true.                                            *)
(***************************************************************************)
SentFor(h) ==
    {r \in Requests : IsPost(r) /\ Hash(reqs[r].body) = h /\ reqs[r].outcome.sent}

C5_NeverTwoDeliveries ==
    \A r \in Requests : IsPost(r) => Cardinality(SentFor(Hash(reqs[r].body))) <= 1

\* C5 as amended: between two consecutive clears of idempotencyMap (and
\* before the first one), for each fingerprint at most one request is
\* dispatched, so at most one dispatch results in sent = true.
C5_OneDeliveryPerClearPeriod ==
    \A r \in Requests :
        (IsPost(r) /\ Checked(r)) =>
            /\ Cardinality({q \in SameFingerprint(r) : Dispatched(q)}) <= 1
            /\ Cardinality({q \in SameFingerprint(r) : reqs[q].outcome.sent}) <= 1

\* The same content is delivered once before and once after a clear.
C5_Witness ==
    \E r, q \in Requests :
        /\ IsPost(r) /\ IsPost(q)
        /\ Hash(reqs[r].body) = Hash(reqs[q].body)
        /\ reqs[r].outcome.sent /\ reqs[q].outcome.sent
        /\ reqs[r].epoch = 0 /\ reqs[q].epoch = 1

(***************************************************************************)
(* C6: the fingerprint of a non-duplicate request is in idempotencyMap     *)
(* from the moment of the test on, before the send and whatever its        *)
(* result; after a dispatch that returned sent = false an identical        *)
(* request (no clear in between) is answered as a duplicate and is not     *)
(* dispatched.                                                             *)
(***************************************************************************)
FailedSame(r) ==
    {q \in EarlierSame(r) : reqs[q].resp = "status" /\ ~reqs[q].outcome.sent}

C6_MarkedBeforeSend ==
    \A r \in Requests :
        (reqs[r].seen = "unseen" /\ reqs[r].epoch = clears) =>
            MapHas(idempotencyMap, Hash(reqs[r].body))

C6_ResubmitStep ==
    \A r \in Requests :
        (IsPost(r) /\ ~Checked(r) /\ reqs'[r].seen # "unchecked" /\ FailedSame(r) # {}) =>
            /\ reqs'[r].resp = "duplicate"
            /\ reqs'[r].pc = "responded"
            /\ reqs'[r].calls = <<>>
            /\ idempotencyMap' = idempotencyMap

C6_SeenEvenIfSendFails == []C6_MarkedBeforeSend /\ [][C6_ResubmitStep]_vars

\* A request submitted after the failed dispatch of the same content.
C6_Witness ==
    \E r, q \in Requests :
        /\ r # q
        /\ reqs[r].body = reqs[q].body
        /\ reqs[r].resp = "status" /\ ~reqs[r].outcome.sent
        /\ reqs[q].at >= reqs[r].outcome.timestamp
        /\ reqs[q].resp = "duplicate"
        /\ MapHas(idempotencyMap, Hash(reqs[r].body))

(***************************************************************************)
(* C7: sendEmail returns the outcome of the table, for every pair of       *)
(* failure draws and every provider result:                                *)
(*   (true,false):  B attempted; B / sent / fallbackTried, or on exception *)
(*                  null / not sent / fallbackTried / "Fallback failed"    *)
(*   (false,true):  A attempted; A / sent / fallbackTried, or on exception *)
(*                  null / not sent / fallbackTried / "Fallback failed"    *)
(*   (true,true):   no attempt; null / not sent / no fallback /            *)
(*                  "Both providers failed"                                *)
(*   (false,false): A attempted; A / sent / no fallback, or on exception   *)
(*                  null / not sent / no fallback / "Both providers failed"*)
(***************************************************************************)
Shape(o) == <<o.provider, o.sent, o.fallbackTried, o.error>>

C7_OutcomeTable ==
    \A r \in Requests :
        reqs[r].resp = "status" =>
            LET fa == reqs[r].failA
                fb == reqs[r].failB
                m == reqs[r].mail
                o == Shape(reqs[r].outcome)
                c == reqs[r].calls
            IN /\ (fa /\ ~fb /\ m = "resolved") =>
                      c = <<"B">> /\ o = <<"B", TRUE, TRUE, NoError>>
               /\ (fa /\ ~fb /\ m = "rejected") =>
                      c = <<"B">> /\ o = <<Null, FALSE, TRUE, "Fallback failed">>
               /\ (~fa /\ fb /\ m = "resolved") =>
                      c = <<"A">> /\ o = <<"A", TRUE, TRUE, NoError>>
               /\ (~fa /\ fb /\ m = "rejected") =>
                      c = <<"A">> /\ o = <<Null, FALSE, TRUE, "Fallback failed">>
               /\ (fa /\ fb) =>
                      /\ c = <<>> /\ m = "none"
                      /\ o = <<Null, FALSE, FALSE, "Both providers failed">>
               /\ (~fa /\ ~fb /\ m = "resolved") =>
                      c = <<"A">> /\ o = <<"A", TRUE, FALSE, NoError>>
               /\ (~fa /\ ~fb /\ m = "rejected") =>
                      c = <<"A">> /\ o = <<Null, FALSE, FALSE, "Both providers failed">>
               /\ (fa /\ fb) \/ m \in {"resolved", "rejected"}
               /\ reqs[r].outcome.timestamp >= reqs[r].at + reqs[r].delay

C7_Witness ==
    \E r, q \in Requests :
        /\ reqs[r].resp = "status" /\ reqs[q].resp = "status"
        /\ ~reqs[r].failA /\ reqs[r].failB /\ reqs[r].mail = "rejected"
        /\ reqs[r].outcome.error = "Fallback failed"
        /\ reqs[q].failA /\ ~reqs[q].failB /\ reqs[q].mail = "resolved"
        /\ reqs[q].outcome.provider = "B"

(***************************************************************************)
(* C8: for a caller that has been denied in its current window, the first  *)
(* call made at 1000 ms or more after the window start is admitted, and    *)
(* leaves the caller's entry at requests = 1, retryCount = 1 and           *)
(* timeStamp = the time of that call.                                      *)
(***************************************************************************)
\* r is the first call of its caller after the end of a window in which the
\* caller was denied.
AfterDeniedWindow(r) ==
    /\ PrevCall(r) # 0
    /\ reqs[r].at - reqs[PrevCall(r)].windowStart >= window
    /\ \E q \in SameWindow(PrevCall(r)) : Denied(q)

C8_AdmittedAgainAfterWindow ==
    \A r \in Requests :
        AfterDeniedWindow(r) =>
            /\ Admitted(r)
            /\ reqs[r].requests = 1
            /\ reqs[r].retryCount = 1
            /\ reqs[r].windowStart = reqs[r].at
            /\ (\A q \in (r + 1)..Len(reqs) : reqs[q].ip # reqs[r].ip) =>
                   ipMap[reqs[r].ip] = FreshEntry(reqs[r].at)

\* The call arrives exactly when the window length has elapsed.
C8_Witness ==
    \E r \in Requests :
        /\ AfterDeniedWindow(r)
        /\ reqs[r].at - reqs[PrevCall(r)].windowStart = window
        /\ Admitted(r)

(***************************************************************************)
(* C9: a request denied by admission control is answered at once and goes  *)
(* no further: it is never held in the backoff delay, never tests or       *)
(* inserts into idempotencyMap and never invokes sendEmail; the step that  *)
(* denies it leaves idempotencyMap unchanged.                              *)
(***************************************************************************)
C9_DeniedStops ==
    \A r \in Requests :
        Denied(r) =>
            /\ reqs[r].pc = "responded"
            /\ reqs[r].delay = Undefined
            /\ ~Checked(r)
            /\ ~Dispatched(r)
            /\ reqs[r].calls = <<>>
            /\ reqs[r].outcome = NoOutcome

C9_DenialStep ==
    (Arrived # 0 /\ reqs'[Arrived].resp \in {MaxRetriesMsg, MaxRequestsMsg}) =>
        idempotencyMap' = idempotencyMap

C9_DeniedRequestGoesNoFurther == []C9_DeniedStops /\ [][C9_DenialStep]_vars

\* A denied delivery request whose content has never been recorded, while
\* the clock has passed every delay it could have been given.
C9_Witness ==
    \E r \in Requests :
        /\ Denied(r)
        /\ IsPost(r)
        /\ ~MapHas(idempotencyMap, Hash(reqs[r].body))
        /\ now >= reqs[r].at + getBackoffDelay(1, baseDelay)

(***************************************************************************)
(* C10: every admitted request is held for 100 * 2^retryCount ms, with the *)
(* caller's counter after the update for that call: 200, 400, 800 ms for   *)
(* the successive admitted calls of one window, and 200 ms again for the   *)
(* first call after the window rolls over.                                 *)
(***************************************************************************)
C10_BackoffDelay ==
    \A r \in Requests :
        Admitted(r) =>
            /\ reqs[r].delay = 100 * 2^(reqs[r].retryCount)
            /\ PosInWindow(r) = 1 => reqs[r].delay = 200
            /\ PosInWindow(r) = 2 => reqs[r].delay = 400
            /\ PosInWindow(r) = 3 => reqs[r].delay = 800
            /\ reqs[r].pc # "backoff" => now >= reqs[r].at + reqs[r].delay
            /\ (PrevCall(r) # 0 /\ reqs[r].at - reqs[PrevCall(r)].windowStart >= window) =>
                   reqs[r].delay = 200

\* After a window with delays 200, 400 and 800 ms the caller's next window
\* starts with a request that was held 200 ms and then answered.
C10_Witness ==
    \E r, q \in Requests :
        /\ q = PrevCall(r)
        /\ reqs[q].delay = 800
        /\ reqs[r].at - reqs[q].windowStart >= window
        /\ reqs[r].delay = 200
        /\ reqs[r].resp = "welcome"

(***************************************************************************)
(* C11: two admitted delivery requests whose (from, to, subject, text)     *)
(* differ in one field have different fingerprints; a request whose        *)
(* content differs in one field from every request handled before it is    *)
(* not answered as a duplicate: it goes on to dispatch and idempotencyMap  *)
(* gains a new entry.                                                      *)
(***************************************************************************)
Fields == {"from", "to", "subject", "text"}

DiffersInOneField(a, b) == Cardinality({f \in Fields : a[f] # b[f]}) = 1

\* The delivery requests handled before this step since the last clear.
HandledBefore(r) ==
    {q \in Requests \ {r} : IsPost(q) /\ Checked(q) /\ reqs[q].epoch = clears}

C11_DistinctFingerprints ==
    \A r, q \in Requests :
        (IsPost(r) /\ IsPost(q) /\ DiffersInOneField(reqs[r].body, reqs[q].body)) =>
            /\ Hash(reqs[r].body) # Hash(reqs[q].body)
            /\ (Checked(r) /\ Checked(q) /\ {p \in Requests : Checked(p)} = {r, q}) =>
                   reqs[r].seen = "unseen" /\ reqs[q].seen = "unseen"

C11_CheckStep ==
    \A r \in Requests :
        (/\ IsPost(r) /\ ~Checked(r) /\ reqs'[r].seen # "unchecked"
         /\ HandledBefore(r) # {}
         /\ \A q \in HandledBefore(r) : DiffersInOneField(reqs[q].body, reqs[r].body)) =>
            /\ reqs'[r].seen = "unseen"
            /\ reqs'[r].pc = "initServices"
            /\ Cardinality(idempotencyMap') = Cardinality(idempotencyMap) + 1

C11_OneFieldApart == []C11_DistinctFingerprints /\ [][C11_CheckStep]_vars

\* B1 and B2 differ in the recipient only: both were dispatched and
\* idempotencyMap holds two entries.
C11_Witness ==
    \E r, q \in Requests :
        /\ DiffersInOneField(reqs[r].body, reqs[q].body)
        /\ reqs[r].resp = "status" /\ reqs[q].resp = "status"
        /\ Len(reqs[r].calls) + Len(reqs[q].calls) = 2
        /\ Cardinality(idempotencyMap) = 2

(***************************************************************************)
(* C12: sendEmail never lets an exception reach its caller: for every pair *)
(* of draws and every provider behaviour, a sendMail that throws included, *)
(* it returns an outcome; whenever no message was sent the outcome has     *)
(* sent = false, provider = null and a non-empty error text.               *)
(***************************************************************************)
\* sendEmail has completed for request r (returned or thrown).
Completed(r) == Dispatched(r) /\ reqs[r].pc # "sendMail"

C12_AlwaysAnOutcome ==
    \A r \in Requests :
        /\ reqs[r].mail # "none" => Completed(r)
        /\ Completed(r) =>
               /\ reqs[r].pc = "responded"
               /\ reqs[r].resp = "status"
               /\ reqs[r].outcome.timestamp # Undefined
               /\ reqs[r].outcome.sent = (reqs[r].mail = "resolved")
               /\ reqs[r].mail # "resolved" =>
                      /\ reqs[r].outcome.provider = Null
                      /\ reqs[r].outcome.error \notin {NoError, ""}

\* sendMail threw on the default path and on a fallback path.
C12_Witness ==
    \E r, q \in Requests :
        /\ reqs[r].mail = "rejected" /\ ~reqs[r].failA /\ ~reqs[r].failB
        /\ reqs[r].outcome.error = "Both providers failed"
        /\ reqs[q].mail = "rejected" /\ reqs[q].failA /\ ~reqs[q].failB
        /\ reqs[q].outcome.error = "Fallback failed"

(***************************************************************************)
(* C13: an admitted request always runs to completion: once its handling   *)
(* has ended it has received a response, which for a delivery request is   *)
(* the duplicate notice or the status page of a delivery outcome; no       *)
(* admitted request is left without a response.                            *)
(***************************************************************************)
InHandling(r) == reqs[r].pc \in {"backoff", "initServices", "sendMail"}

C13_AlwaysAnswered ==
    \A r \in Requests :
        (Admitted(r) /\ ~InHandling(r)) =>
            /\ reqs[r].pc = "responded"
            /\ IsPost(r) => reqs[r].resp \in {"duplicate", "status"}

(***************************************************************************)
(* C14: the backoff wait of one request never blocks another caller:       *)
(* while a request of caller X is suspended in its delay, a request of a   *)
(* different caller Y with a different fingerprint can be admitted, pass   *)
(* its own delay and the duplicate test, and complete its dispatch; none   *)
(* of its steps waits for the end of X's delay.                            *)
(***************************************************************************)
Suspended(x) == reqs[x].pc = "backoff" /\ now < reqs[x].at + reqs[x].delay

Independent(x, y) ==
    /\ reqs[y].ip # reqs[x].ip
    /\ IsPost(y)
    /\ Hash(reqs[y].body) # Hash(reqs[x].body)

C15_CallStep ==
    /\ Arrived = 0 => ipMap' = ipMap
    /\ Arrived # 0 =>
           LET ip == reqs'[Arrived].ip
           IN IF ip \in DOMAIN ipMap /\ now - ipMap[ip].timeStamp < window
              THEN /\ ipMap'[ip].retryCount = ipMap[ip].retryCount + 1
                   /\ ipMap'[ip].requests = ipMap[ip].requests + 1
                   /\ ipMap'[ip].timeStamp = ipMap[ip].timeStamp
              ELSE /\ ipMap'[ip] = [retryCount |-> 1, requests |-> 1, timeStamp |-> now]
                   /\ reqs'[Arrived].resp \notin {MaxRetriesMsg, MaxRequestsMsg}

C15_AdmittedAtWindowEnd ==
    \A r \in Requests :
        /\ PrevCall(r) # 0 =>
               /\ reqs[r].at - reqs[PrevCall(r)].windowStart >= window => Admitted(r)
               /\ reqs[r].at - reqs[PrevCall(r)].windowStart < window =>
                      reqs[r].windowStart = reqs[PrevCall(r)].windowStart
        /\ reqs[r].at < reqs[r].windowStart + window

C15_DenialNotProlonged == [][C15_CallStep]_vars /\ []C15_AdmittedAtWindowEnd

\* Two calls were denied in one window, the second well after the first, and
\* the call made when 1000 ms had passed since the window start was admitted.
C15_Witness ==
    \E r, q, p \in Requests :
        /\ q = PrevCall(r) /\ p = PrevCall(q)
        /\ Denied(p) /\ Denied(q)
        /\ reqs[q].at > reqs[p].at
        /\ reqs[q].windowStart = reqs[p].windowStart
        /\ reqs[r].at = reqs[q].windowStart + window
        /\ Admitted(r)

(***************************************************************************)
(* C16: the admission step of a call changes the ipMap entry of its caller *)
(* only, and leaves every other entry and idempotencyMap unchanged; no     *)
(* other step (end of backoff, duplicate test, initServices, sendMail, the *)
(* periodic clear, the clock) changes ipMap.  ipMap holds exactly one      *)
(* entry per caller that has ever called, and no entry is ever removed.    *)
(***************************************************************************)
Callers == {reqs[r].ip : r \in Requests}

C16_FrameStep ==
    /\ Arrived = 0 => ipMap' = ipMap
    /\ Arrived # 0 =>
           /\ DOMAIN ipMap' = DOMAIN ipMap \cup {reqs'[Arrived].ip}
           /\ \A ip \in DOMAIN ipMap \ {reqs'[Arrived].ip} : ipMap'[ip] = ipMap[ip]
           /\ ipMap'[reqs'[Arrived].ip] # IF reqs'[Arrived].ip \in DOMAIN ipMap
                                          THEN ipMap[reqs'[Arrived].ip]
                                          ELSE <<>>
           /\ idempotencyMap' = idempotencyMap
    /\ DOMAIN ipMap \subseteq DOMAIN ipMap'

C16_OneEntryPerCaller == DOMAIN ipMap = Callers

C16_OnlyAdmissionWritesWindows == [][C16_FrameStep]_vars /\ []C16_OneEntryPerCaller

\* After the admission of a second caller, a dispatch and a periodic clear,
\* the entry of the first caller is still the one its own call wrote.
C16_Witness ==
    \E r, q \in Requests :
        /\ r < q
        /\ reqs[r].ip # reqs[q].ip
        /\ reqs[q].at > reqs[r].at
        /\ clears >= 1
        /\ Dispatched(r)
        /\ ipMap[reqs[r].ip] = [retryCount |-> 1, requests |-> 1, timeStamp |-> reqs[r].at]
        /\ ipMap[reqs[q].ip] = [retryCount |-> 1, requests |-> 1, timeStamp |-> reqs[q].at]

(***************************************************************************)
(* C17: one invocation of sendEmail calls sendMail at most once in total:  *)
(* not at all when both failure draws are true, exactly once otherwise     *)
(* (provider B when only A is drawn to fail, provider A in the other two   *)
(* cases), and a rejected sendMail is not followed by another attempt.     *)
(***************************************************************************)
C17_CallsOfInvocation ==
    \A r \in Requests :
        /\ Len(reqs[r].calls) <= 1
        /\ ~Dispatched(r) => reqs[r].calls = <<>>
        /\ Dispatched(r) =>
               IF reqs[r].failA /\ reqs[r].failB
               THEN reqs[r].calls = <<>> /\ reqs[r].mail = "none"
               ELSE reqs[r].calls = <<IF reqs[r].failA THEN "B" ELSE "A">>
        /\ reqs[r].mail = "rejected" => Len(reqs[r].calls) = 1 /\ ~reqs[r].outcome.sent

C17_CallsStep ==
    \A r \in Requests : Dispatched(r) => reqs'[r].calls = reqs[r].calls

C17_AtMostOneSendMail == []C17_CallsOfInvocation /\ [][C17_CallsStep]_vars

\* Provider A was drawn to fail, the one call to provider B was rejected, and
\* sendEmail returned the failure with that single call made.
C17_Witness ==
    \E r \in Requests :
        /\ reqs[r].failA /\ ~reqs[r].failB
        /\ reqs[r].mail = "rejected"
        /\ reqs[r].resp = "status"
        /\ reqs[r].calls = <<"B">>

(***************************************************************************)
(* C18: in every reachable state every ipMap entry has requests =          *)
(* retryCount >= 1, so the test requests > maxRequests can only hold where *)
(* the test maxRetries < retryCount has already answered: the              *)
(* maximum-requests denial is never produced and every denied call is      *)
(* denied with the maximum-retries answer.                                 *)
(***************************************************************************)
C18_CountersEqual ==
    /\ \A ip \in DOMAIN ipMap :
           ipMap[ip].requests = ipMap[ip].retryCount /\ ipMap[ip].retryCount >= 1
    /\ \A r \in Requests :
           /\ reqs[r].requests = reqs[r].retryCount /\ reqs[r].retryCount >= 1
           /\ reqs[r].resp # MaxRequestsMsg
           /\ Denied(r) <=> reqs[r].requests > maxRequests
           /\ Denied(r) => reqs[r].resp = MaxRetriesMsg

\* A fifth call inside one window: requests is 5, above maxRequests, and the
\* answer is still the maximum-retries one.
C18_Witness ==
    \E r \in Requests :
        /\ reqs[r].requests = 5
        /\ reqs[r].resp = MaxRetriesMsg
        /\ ipMap[reqs[r].ip].requests = 5

(***************************************************************************)
(* C19: a caller that issues each request only after the response to its   *)
(* previous request has arrived, hence not before that request's backoff   *)
(* delay has elapsed, is never denied, however many requests it makes: the *)
(* delays 200 + 400 + 800 ms of three admitted calls carry the fourth call *)
(* past the end of the 1000 ms window.                                     *)
(***************************************************************************)
\* Every call of r's caller up to r was made no earlier than the end of the
\* delay of the caller's previous call.
Sequential(r) ==
    \A q \in 1..r :
        (reqs[q].ip = reqs[r].ip /\ PrevCall(q) # 0 /\ Admitted(PrevCall(q))) =>
            reqs[q].at >= reqs[PrevCall(q)].at + reqs[PrevCall(q)].delay

C19_SequentialNeverDenied ==
    \A r \in Requests :
        \* the response to an admitted request arrives after its delay
        /\ (Admitted(r) /\ reqs[r].pc = "responded") =>
               now >= reqs[r].at + reqs[r].delay
        /\ Sequential(r) => Admitted(r)

\* The fourth call of a sequential caller, made after three admitted calls of
\* one window with retry counts 1, 2, 3, opens a new window.
C19_Witness ==
    \E r \in Requests :
        /\ Sequential(r)
        /\ r = 4
        /\ \A n \in 1..3 : reqs[n].retryCount = n /\ reqs[n].pc = "responded"
        /\ reqs[r].retryCount = 1
        /\ reqs[r].windowStart >= reqs[1].windowStart + window
        /\ Admitted(r)

(***************************************************************************)
(* C20: among the requests with one fingerprint, the one that is           *)
(* dispatched is the one whose backoff delay ends first, whatever the      *)
(* order of admission: every other one is answered as a duplicate, and a   *)
(* request admitted earlier with a longer delay can be the duplicate of a  *)
(* request admitted later by another caller with a shorter delay.          *)
(***************************************************************************)
C20_FirstDelayEndWins ==
    \A x, y \in Requests :
        (/\ x # y
         /\ IsPost(x) /\ IsPost(y)
         /\ Hash(reqs[x].body) = Hash(reqs[y].body)
         /\ Checked(x) /\ Checked(y)
         /\ reqs[y].seen = "unseen") =>
            /\ reqs[x].seen = "seen"
            /\ reqs[x].resp = "duplicate"
            /\ Deadline(y) <= Deadline(x)

\* x was admitted before y, by another caller and with a longer delay; y's
\* delay ended first, y was dispatched and x was answered as a duplicate.
C20_Witness ==
    \E x, y \in Requests :
        /\ x < y
        /\ reqs[x].at < reqs[y].at
        /\ reqs[x].ip # reqs[y].ip
        /\ reqs[x].delay > reqs[y].delay
        /\ Hash(reqs[x].body) = Hash(reqs[y].body)
        /\ reqs[y].seen = "unseen" /\ Dispatched(y)
        /\ reqs[x].resp = "duplicate"

(***************************************************************************)
(* C21: admission control and backoff apply to every request of a caller   *)
(* on every route: a request on GET / or GET /sendEmail counts in the      *)
(* caller's window like a delivery request and serves the delay of its     *)
(* position, so after three requests on any routes inside one window the   *)
(* caller's next request in that window, a delivery request included, is   *)
(* denied.                                                                 *)
(***************************************************************************)
C21_EveryRouteCounts ==
    \A r \in Requests :
        /\ reqs[r].retryCount = PosInWindow(r)
        /\ reqs[r].requests = PosInWindow(r)
        /\ Denied(r) <=> PosInWindow(r) > maxRetries
        /\ Admitted(r) =>
               /\ reqs[r].delay = baseDelay * 2^PosInWindow(r)
               /\ reqs[r].pc # "backoff" => now >= reqs[r].at + reqs[r].delay
        /\ Denied(r) => ~Checked(r) /\ ~Dispatched(r)

C21_RouteStep ==
    Arrived # 0 =>
        /\ reqs'[Arrived].ip \in DOMAIN ipMap'
        /\ ipMap'[reqs'[Arrived].ip] #
               IF reqs'[Arrived].ip \in DOMAIN ipMap THEN ipMap[reqs'[Arrived].ip] ELSE <<>>

C21_AdmissionOnEveryRoute == []C21_EveryRouteCounts /\ [][C21_RouteStep]_vars

\* Three requests on the two non-delivery routes inside one window, then a
\* delivery request in the same window, which is denied before its content
\* is looked at.
C21_Witness ==
    \E r \in Requests :
        /\ r = 4
        /\ IsPost(r)
        /\ \A q \in 1..3 : ~IsPost(q) /\ Admitted(q) /\ reqs[q].windowStart = reqs[r].windowStart
        /\ {reqs[q].route : q \in 1..3} = {"GET /", "GET /sendEmail"}
        /\ reqs[r].at > reqs[1].at
        /\ reqs[r].resp = MaxRetriesMsg
        /\ idempotencyMap = {}

====
